---- MODULE Spec2Model ----
(***************************************************************************)
(* Quantum AI Translator: the TranslationProvider (history, GPT config,    *)
(* local-storage persistence, the processFile / processText pipeline), the *)
(* Upload page with its isProcessing guard, the router, the Translation    *)
(* view with its scroll synchronisation, and compressImage.                *)
(*                                                                         *)
(* Texts are TLA+ strings handled character by character.  User-facing     *)
(* messages are written in ASCII; the source literal is given beside each. *)
(***************************************************************************)
EXTENDS Integers, Sequences, FiniteSets, TLC

(***************************************************************************)
(* Bounds of the model.                                                    *)
(***************************************************************************)
MaxRuns == 2          \* processFile/processText calls that may be pending at once
MaxHistory == 2       \* records the history may hold before runs stop being started
MaxClock == 2         \* Date.now() takes the values 1..MaxClock
StorageQuota == 40    \* tokens localStorage accepts in all (the browser's quota)

VARIABLES
    translations,     \* TranslationProvider: useState<Translation[]>
    gptConfig,        \* TranslationProvider: useState<GPTConfig>
    storage,          \* window.localStorage: key -> stored JSON text (tokens) or NoItem
    route,            \* location.pathname
    visited,          \* translation ids the browser history holds an entry for
    isProcessing,     \* Upload: useState(false), of the mounted Upload
    error,            \* Upload: useState<string | null>(null)
    targetLanguage,   \* Upload: useState('zh')
    inputText,        \* Upload: useState('')
    runs,             \* the pending processFile/processText calls, by slot
    settled,          \* the call that settled last: how its promise ended
    now,              \* Date.now()
    view,             \* the Translation component instance and its two panes
    image,            \* compressImage: the source image and the canvas
    dropped,          \* history variable: the file of the last drop DropFile recorded
    sidebar           \* Sidebar: the settings dialog and the validateAPIConfig run

vars == <<translations, gptConfig, storage, route, visited, isProcessing, error,
          targetLanguage, inputText, runs, settled, now, view, image, dropped, sidebar>>

\* the state of the application proper
appVars == <<translations, gptConfig, storage, route, visited, isProcessing, error,
             targetLanguage, inputText, runs, settled, now, view, image>>

\* the state of the Upload component
upload == <<isProcessing, error, targetLanguage, inputText>>

Null == "null"
NoItem == <<"<none>">>

(***************************************************************************)
(* Strings.                                                                *)
(***************************************************************************)
Whitespace == {" ", "\n", "\t"}

RECURSIVE TrimStart(_)
TrimStart(s) ==
    IF Len(s) > 0 /\ Head(s) \in Whitespace THEN TrimStart(Tail(s)) ELSE s

RECURSIVE TrimEnd(_)
TrimEnd(s) ==
    IF Len(s) > 0 /\ SubSeq(s, Len(s), Len(s)) \in Whitespace
    THEN TrimEnd(SubSeq(s, 1, Len(s) - 1))
    ELSE s

\* String.prototype.trim
Trim(s) == TrimEnd(TrimStart(s))

\* the flag i of a regular expression: letters compare in lower case
LowerChar(c) ==
    CASE c = "I" -> "i"
      [] c = "U" -> "u"
      [] c = "N" -> "n"
      [] OTHER -> c

RECURSIVE Lower(_)
Lower(s) == IF Len(s) = 0 THEN "" ELSE LowerChar(Head(s)) \o Lower(Tail(s))

\* RegExp.prototype.test for a literal pattern p, anywhere in s
Contains(s, p) ==
    \E i \in 1..(Len(s) - Len(p) + 1) : SubSeq(s, i, i + Len(p) - 1) = p

\* baseUrl.replace(/\/$/, ''): one trailing slash is removed
StripTrailingSlash(s) ==
    IF Len(s) > 0 /\ SubSeq(s, Len(s), Len(s)) = "/"
    THEN SubSeq(s, 1, Len(s) - 1)
    ELSE s

(***************************************************************************)
(* JSON.stringify / JSON.parse, on the token level: a JSON text is the     *)
(* sequence of its punctuation tokens and string literals (a literal is    *)
(* the opening quote followed by the characters).                          *)
(***************************************************************************)
Quote(s) == "\"" \o s

RECURSIVE StringifyMembers(_, _)
StringifyMembers(obj, keys) ==
    IF Len(keys) = 0 THEN <<>>
    ELSE <<Quote(Head(keys)), ":", Quote(obj[Head(keys)])>>
         \o (IF Len(keys) > 1 THEN <<",">> ELSE <<>>)
         \o StringifyMembers(obj, Tail(keys))

StringifyObject(obj, keys) == <<"{">> \o StringifyMembers(obj, keys) \o <<"}">>

TranslationKeys ==
    <<"id", "fileName", "timestamp", "originalText", "translatedText", "targetLanguage">>
GPTConfigKeys == <<"apiKey", "baseUrl">>

RECURSIVE StringifyElements(_)
StringifyElements(list) ==
    IF Len(list) = 0 THEN <<>>
    ELSE StringifyObject(Head(list), TranslationKeys)
         \o (IF Len(list) > 1 THEN <<",">> ELSE <<>>)
         \o StringifyElements(Tail(list))

\* JSON.stringify(translations)
StringifyTranslations(list) == <<"[">> \o StringifyElements(list) \o <<"]">>

\* JSON.stringify(gptConfig)
StringifyConfig(config) == StringifyObject(config, GPTConfigKeys)

ParseFail == [ok |-> FALSE, val |-> Null, rest |-> <<>>]
IsLiteral(tok) == Len(tok) > 0 /\ Head(tok) = "\""
EmptyObject == [k \in {} |-> Null]
WithMember(obj, key, val) ==
    [k \in DOMAIN obj \cup {key} |-> IF k = key THEN val ELSE obj[k]]

RECURSIVE ParseValue(_), ParseMembers(_, _), ParseElements(_, _)

\* after "{" or ",": "key" : value, then "," or "}"
ParseMembers(toks, obj) ==
    IF Len(toks) < 3 \/ ~IsLiteral(toks[1]) \/ toks[2] # ":" THEN ParseFail
    ELSE LET v == ParseValue(SubSeq(toks, 3, Len(toks)))
             o == WithMember(obj, Tail(toks[1]), v.val)
         IN  IF ~v.ok \/ Len(v.rest) = 0 THEN ParseFail
             ELSE IF Head(v.rest) = "}"
                  THEN [ok |-> TRUE, val |-> o, rest |-> Tail(v.rest)]
             ELSE IF Head(v.rest) = ","
                  THEN ParseMembers(Tail(v.rest), o)
             ELSE ParseFail

\* after "[" or ",": value, then "," or "]"
ParseElements(toks, list) ==
    LET v == ParseValue(toks)
    IN  IF ~v.ok \/ Len(v.rest) = 0 THEN ParseFail
        ELSE IF Head(v.rest) = "]"
             THEN [ok |-> TRUE, val |-> Append(list, v.val), rest |-> Tail(v.rest)]
        ELSE IF Head(v.rest) = ","
             THEN ParseElements(Tail(v.rest), Append(list, v.val))
        ELSE ParseFail

ParseValue(toks) ==
    IF Len(toks) = 0 THEN ParseFail
    ELSE IF IsLiteral(Head(toks))
         THEN [ok |-> TRUE, val |-> Tail(Head(toks)), rest |-> Tail(toks)]
    ELSE IF Head(toks) = "{"
         THEN IF Len(toks) > 1 /\ toks[2] = "}"
              THEN [ok |-> TRUE, val |-> EmptyObject, rest |-> SubSeq(toks, 3, Len(toks))]
              ELSE ParseMembers(Tail(toks), EmptyObject)
    ELSE IF Head(toks) = "["
         THEN IF Len(toks) > 1 /\ toks[2] = "]"
              THEN [ok |-> TRUE, val |-> <<>>, rest |-> SubSeq(toks, 3, Len(toks))]
              ELSE ParseElements(Tail(toks), <<>>)
    ELSE ParseFail

\* JSON.parse: the value, or a SyntaxError
JSONParse(toks) ==
    LET v == ParseValue(toks)
    IN  IF v.ok /\ Len(v.rest) = 0 THEN v ELSE ParseFail

(***************************************************************************)
(* localStorage.                                                           *)
(***************************************************************************)
StorageKeys == {"translations", "gptConfig"}

ItemSize(item) == IF item = NoItem THEN 0 ELSE Len(item)

\* what the origin would hold with `text` stored under `key`
UsageWith(store, key, text) ==
    LET other == CHOOSE k \in StorageKeys : k # key
    IN  Len(text) + ItemSize(store[other])

\* localStorage.setItem throws QuotaExceededError when the quota is exceeded
SetItemThrows(store, key, text) == UsageWith(store, key, text) > StorageQuota

\* const loadFromStorage = (key, defaultValue) => ...
LoadFromStorage(store, key, defaultValue) ==
    LET stored == store[key]
    IN  IF stored = NoItem \/ Len(stored) = 0 THEN defaultValue
        ELSE LET parsed == JSONParse(stored)
             IN  IF parsed.ok THEN parsed.val ELSE defaultValue

\* const saveToStorage = (key, value) => ...: a throwing setItem is caught and logged
SaveToStorage(store, key, text) ==
    IF SetItemThrows(store, key, text) THEN store
    ELSE [store EXCEPT ![key] = text]

(***************************************************************************)
(* Messages shown to the user (the source literal beside each).            *)
(***************************************************************************)
MsgNoApiKey == "configure the API Key first"                \* '请先配置 API Key'
MsgFileTooLarge == "image must not exceed 5MB"              \* '图片大小不能超过 5MB'
MsgNoCanvas == "cannot create canvas context"               \* '无法创建Canvas上下文'
MsgStillTooLarge == "compressed image still too large"      \* '压缩后图片仍然过大，请使用更小的图片'
MsgImageLoad == "image failed to load"                      \* '图片加载失败'
MsgFileRead == "file could not be read"                     \* '文件读取失败'
MsgInvalidFormat == "invalid API response format"           \* 'API 返回的响应格式无效'
MsgModelRefused == "model cannot process the request"       \* '模型无法处理该请求，请重试'
MsgNoConnection == "cannot connect to the server"           \* '无法连接到服务器，请检查网络连接'
MsgTimeout == "request timed out, retry"                    \* '请求超时，请重试'
MsgKeyInvalid == "API Key invalid or expired"               \* 'API Key 无效或已过期'
MsgKeyForbidden == "API Key has no access"                  \* 'API Key 无访问权限'
MsgTooFrequent == "too many requests"                       \* '请求过于频繁，请稍后重试'
MsgServerError == "server error"                            \* '服务器错误，请稍后重试'
MsgRequestFailed == "request failed, retry"                 \* '请求失败，请重试'
MsgUnknown == "unknown error, retry"                        \* '发生未知错误，请重试'
MsgNoText == "no text extracted from the image"             \* '未能从图片中提取到文字，请确保图片包含清晰的文本'
MsgDropTooLarge == "file must not exceed 20MB"              \* '文件大小不能超过 20MB'
MsgEnterText == "enter the text to translate"               \* '请输入需要翻译的文本'
TextFileName == "text translation"                          \* '文本翻译'

(***************************************************************************)
(* Inputs of the model.                                                    *)
(***************************************************************************)
MAX_FILE_SIZE == 5 * 1024 * 1024
DROPZONE_MAX_SIZE == 20 * 1024 * 1024

DefaultApiKey == "Link_V7"
DefaultBaseUrl == "https://api.link-ai.tech"
ApiKeys == {"", DefaultApiKey}
BaseUrls == {DefaultBaseUrl, DefaultBaseUrl \o "/"}
DefaultConfig == [apiKey |-> DefaultApiKey, baseUrl |-> DefaultBaseUrl]

Languages == {"zh", "en"}
InputTexts == {"", " \n", "Hello"}
FileSizes == {MAX_FILE_SIZE, MAX_FILE_SIZE + 1, DROPZONE_MAX_SIZE, DROPZONE_MAX_SIZE + 1}
Files == [name : {"a.png"}, size : FileSizes]
NoFile == [name |-> "", size |-> 0]

\* choices[0].message.content of a chat-completion response
NoContent == "<undefined>"
Contents == {"", " \n", "Hola", "Unable to read"}

\* how an axios.post settles
NoMessage == "<undefined>"
NoCode == "<undefined>"
DataOutcomes ==
    [kind : {"data"}, hasResponse : {TRUE}, status : {200}, code : {NoCode},
     message : {NoMessage}, content : Contents \cup {NoContent}]
NoResponseOutcomes ==
    [kind : {"axios"}, hasResponse : {FALSE}, status : {0},
     code : {"ERR_NETWORK", "ECONNABORTED"},
     message : {NoMessage}, content : {NoContent}]
StatusOutcomes ==
    [kind : {"axios"}, hasResponse : {TRUE}, status : {401, 403, 429, 500},
     code : {"ERR_BAD_RESPONSE"}, message : {NoMessage}, content : {NoContent}]
    \cup
    [kind : {"axios"}, hasResponse : {TRUE}, status : {400},
     code : {"ERR_BAD_REQUEST"}, message : {NoMessage, "", "model not found"},
     content : {NoContent}]
OtherOutcomes ==
    [kind : {"other"}, hasResponse : {FALSE}, status : {0}, code : {NoCode},
     message : {NoMessage}, content : {NoContent}]
Outcomes == DataOutcomes \cup NoResponseOutcomes \cup StatusOutcomes \cup OtherOutcomes
NoOutcome ==
    [kind |-> "none", hasResponse |-> FALSE, status |-> 0, code |-> NoCode,
     message |-> NoMessage, content |-> NoContent]

\* how the FileReader / Image / canvas part of compressImage settles
CompressOutcomes == {"ok", "readError", "loadError", "noContext", "tooLarge"}

(***************************************************************************)
(* validateGPTResponse and makeGPTRequest.                                 *)
(***************************************************************************)
Ok(v) == [ok |-> TRUE, val |-> v]
Err(m) == [ok |-> FALSE, val |-> m]

\* /I('m| am) sorry/i, /I cannot|I can't/i, /unable to/i, /not (able|allowed) to/i
RejectPatterns ==
    {"i'm sorry", "i am sorry", "i cannot", "i can't", "unable to",
     "not able to", "not allowed to"}

\* function validateGPTResponse(response: any): string
ValidateGPTResponse(content) ==
    IF content = NoContent \/ content = "" THEN Err(MsgInvalidFormat)
    ELSE IF \E p \in RejectPatterns : Contains(Lower(content), p)
         THEN Err(MsgModelRefused)
    ELSE Ok(content)

\* the catch block of makeGPTRequest
RequestErrorMessage(o) ==
    IF o.kind = "axios"
    THEN IF ~o.hasResponse THEN MsgNoConnection
         ELSE IF o.code = "ECONNABORTED" THEN MsgTimeout
         ELSE IF o.status = 401 THEN MsgKeyInvalid
         ELSE IF o.status = 403 THEN MsgKeyForbidden
         ELSE IF o.status = 429 THEN MsgTooFrequent
         ELSE IF o.status >= 500 THEN MsgServerError
         ELSE IF o.message # NoMessage /\ o.message # "" THEN o.message
         ELSE MsgRequestFailed
    ELSE MsgUnknown

\* const makeGPTRequest = async (messages, options) => ...: response.data or an Error
MakeGPTRequest(o) ==
    IF o.kind = "data" THEN Ok(o.content) ELSE Err(RequestErrorMessage(o))

(***************************************************************************)
(* Routes and the Translation view.                                        *)
(***************************************************************************)
HomePath == "/"
TranslationPath(id) == "/translation/" \o id
IsTranslationPath(path) ==
    Len(path) >= Len("/translation/")
    /\ SubSeq(path, 1, Len("/translation/")) = "/translation/"
\* useParams().id
RouteId(path) == SubSeq(path, Len("/translation/") + 1, Len(path))

\* translations.find((t) => t.id === id): the first match, or undefined
NoTranslation ==
    [id |-> "<undefined>", fileName |-> "", timestamp |-> "", originalText |-> "",
     translatedText |-> "", targetLanguage |-> ""]

RECURSIVE Find(_, _)
Find(list, id) ==
    IF Len(list) = 0 THEN NoTranslation
    ELSE IF Head(list).id = id THEN Head(list)
    ELSE Find(Tail(list), id)

Panes == {"original", "translated"}
OtherPane(p) == IF p = "original" THEN "translated" ELSE "original"

\* height of a pane's viewport, and of a line of text, in pixels
ClientHeight == 2
\* the furthest a pane is scrolled
MaxScroll == 3
\* scrollHeight - clientHeight of a <pre> holding `text` (one pixel a character)
ScrollRange(text) == IF Len(text) > ClientHeight THEN Len(text) - ClientHeight ELSE 0

Min(a, b) == IF a < b THEN a ELSE b

NoView ==
    [mounted |-> FALSE, shown |-> NoTranslation, listening |-> FALSE,
     top |-> [p \in Panes |-> 0], pending |-> {}]

PaneText(record, p) ==
    IF p = "original" THEN record.originalText ELSE record.translatedText

\* Translation mounts: it renders, then the effect with the empty dependency
\* list runs once and attaches the listeners if both refs are set
ViewMount(path, list) ==
    LET found == Find(list, RouteId(path))
    IN  [mounted |-> TRUE, shown |-> found, listening |-> found # NoTranslation,
         top |-> [p \in Panes |-> 0], pending |-> {}]

\* Translation re-renders (the id or the history changed): the effect does not
\* run again; the <pre> elements live on while a record stays displayed
ViewRerender(v, path, list) ==
    LET found == Find(list, RouteId(path))
    IN  IF found = NoTranslation THEN [NoView EXCEPT !.mounted = TRUE]
        ELSE IF v.shown = NoTranslation
             THEN [mounted |-> TRUE, shown |-> found, listening |-> FALSE,
                   top |-> [p \in Panes |-> 0], pending |-> {}]
        ELSE [v EXCEPT !.shown = found,
                       !.top = [p \in Panes |->
                                   Min(v.top[p], ScrollRange(PaneText(found, p)))]]

\* the view after the router shows `path` with the history `list`
ViewAfter(v, path, list) ==
    IF ~IsTranslationPath(path) THEN NoView
    ELSE IF v.mounted THEN ViewRerender(v, path, list)
    ELSE ViewMount(path, list)

(***************************************************************************)
(* The processFile / processText calls.                                    *)
(***************************************************************************)
Slots == 1..MaxRuns
InFlightPcs == {"compress", "ocr", "translate"}

IdleRun ==
    [pc |-> "idle", kind |-> "none", apiKey |-> "", fileName |-> "", lang |-> "", text |-> "",
     steps |-> <<>>,
     returned |-> 0, error |-> "", cause |-> NoOutcome, ocr |-> NoContent,
     owner |-> FALSE, record |-> NoTranslation]

InFlight(r) == runs[r].pc \in InFlightPcs
NumInFlight == Cardinality({r \in Slots : InFlight(r)})
\* the slot a new call is kept in: the first free one
FreeSlot == CHOOSE r \in Slots : ~InFlight(r) /\ \A q \in Slots : q < r => InFlight(q)
CanStart == (\E r \in Slots : ~InFlight(r)) /\ Len(translations) < MaxHistory

\* the HTTP requests a call has issued
IsRequest(step) == step \in {"ocr", "translate"}
Requests(run) == SelectSeq(run.steps, IsRequest)

\* a call rejects with new Error(msg)
Rejected(run, msg) == [run EXCEPT !.pc = "rejected", !.error = msg]

\* Upload unmounts: state updates of its pending handlers are dropped from then on
Disowned(rs) == [r \in Slots |-> [rs[r] EXCEPT !.owner = FALSE]]

\* the useEffect hooks of TranslationProvider, run after a render that changed
\* translations / gptConfig
SaveTranslations(store, list) ==
    SaveToStorage(store, "translations", StringifyTranslations(list))
SaveConfig(store, config) ==
    SaveToStorage(store, "gptConfig", StringifyConfig(config))

\* AddTranslation, were the record appended
AddTranslationAtEnd(list, translation) == Append(list, translation)

\* const addTranslation = (translation) => setTranslations((prev) => [translation, ...prev])
AddTranslation(list, translation) == <<translation>> \o list

\* const removeTranslation = (id) => setTranslations((prev) => prev.filter((t) => t.id !== id))
RemoveTranslation(list, id) == SelectSeq(list, LAMBDA t : t.id # id)

\* the baseUrl updateGPTConfig stores
NormalizedConfig(config) ==
    [config EXCEPT !.baseUrl = StripTrailingSlash(config.baseUrl)]

\* the record processFile / processText build
NewTranslation(fileName, originalText, translatedText, lang, time) ==
    [id |-> ToString(time), fileName |-> fileName, timestamp |-> ToString(time),
     originalText |-> originalText, translatedText |-> translatedText,
     targetLanguage |-> lang]

(***************************************************************************)
(* Sidebar: the settings dialog and validateAPIConfig.                     *)
(***************************************************************************)
\* the texts validateAPIConfig sets: 'API 地址格式无效，请输入完整的 URL',
\* '请输入 API Key', '验证 API Key', '测试 API 连接', 'API 配置验证成功', 'API 验证失败',
\* 'API Key 无效', 'API 接口地址无效', 'API 验证失败，请检查配置',
\* '验证过程中发生未知错误'
SidebarText ==
    [urlInvalid |-> "invalid API address, enter a complete URL",
     enterKey |-> "enter an API key",
     stepKey |-> "checking the API key",
     stepPing |-> "testing the API connection",
     validated |-> "API configuration validated",
     failed |-> "API validation failed",
     keyInvalid |-> "invalid API key",
     notFound |-> "invalid API endpoint",
     checkConfig |-> "API validation failed, check the configuration",
     unknown |-> "unknown error during validation"]

\* what the user types into the two inputs of the dialog
TempConfigs ==
    [apiKey : ApiKeys, baseUrl : BaseUrls \cup {"", "api.link-ai.tech"}]

\* new URL(baseUrl) does not throw: of the addresses tried, those with a scheme and
\* a host
IsValidURL(s) ==
    \E scheme \in {"http://", "https://"} :
        Len(s) > Len(scheme) /\ SubSeq(s, 1, Len(scheme)) = scheme

\* how the ping settles: a 2xx response, an axios error with or without a response,
\* something else thrown
PingOutcomes ==
    [kind : {"response"}, hasResponse : {TRUE}, status : {200, 204}, code : {NoCode},
     message : {NoMessage}, content : {NoContent}]
    \cup
    [kind : {"axios"}, hasResponse : {TRUE}, status : {401, 404, 500},
     code : {"ERR_BAD_RESPONSE"}, message : {NoMessage, "", "model not found"},
     content : {NoContent}]
    \cup NoResponseOutcomes \cup OtherOutcomes

\* a run that ended before the ping, at the URL or the API key check
EndedAt(step) == [NoOutcome EXCEPT !.kind = step]

\* Sidebar mounts: useState(false), useState(gptConfig), ...; no run was made
SidebarInit(config) ==
    [showSettings |-> FALSE, tempConfig |-> config, isValidating |-> FALSE,
     validationStatus |-> Null, validationMessage |-> "", validationStep |-> "",
     pc |-> "idle", ended |-> NoOutcome]

\* the disabled attributes of the validate and the save button
ValidateDisabled(sb) ==
    sb.isValidating \/ sb.tempConfig.apiKey = "" \/ sb.tempConfig.baseUrl = ""
SaveDisabled(sb) == sb.isValidating

\* validateAPIConfig up to its await: through catch and finally when the address
\* or the key is rejected, else the ping is pending
ValidateStart(sb) ==
    LET baseUrl == StripTrailingSlash(sb.tempConfig.baseUrl)
        begun == [sb EXCEPT !.isValidating = TRUE, !.validationStatus = Null,
                            !.validationMessage = "", !.ended = NoOutcome]
        thrown(msg, step) ==
            [begun EXCEPT !.validationStatus = "error", !.validationMessage = msg,
                          !.isValidating = FALSE, !.validationStep = "",
                          !.ended = EndedAt(step)]
    IN  IF ~IsValidURL(baseUrl) THEN thrown(SidebarText.urlInvalid, "invalidUrl")
        ELSE IF sb.tempConfig.apiKey = "" THEN thrown(SidebarText.enterKey, "emptyKey")
        ELSE [begun EXCEPT !.validationStep = SidebarText.stepPing, !.pc = "ping"]

\* the message the catch block of validateAPIConfig sets
PingErrorMessage(o) ==
    IF o.kind = "axios"
    THEN IF o.hasResponse /\ o.status = 401 THEN SidebarText.keyInvalid
         ELSE IF o.hasResponse /\ o.status = 404 THEN SidebarText.notFound
         ELSE IF o.hasResponse /\ o.message # NoMessage /\ o.message # ""
              THEN o.message
         ELSE SidebarText.checkConfig
    ELSE IF o.kind = "response" THEN SidebarText.failed
    ELSE SidebarText.unknown

\* AfterPing, were the finally block missing: a failed run stays in its validating phase
AfterPingNoFinally(sb, o) ==
    IF o.kind = "response" /\ o.status = 200
    THEN [sb EXCEPT !.validationStatus = "success",
                    !.validationMessage = SidebarText.validated,
                    !.isValidating = FALSE, !.validationStep = "",
                    !.pc = "idle", !.ended = o]
    ELSE [sb EXCEPT !.validationStatus = "error",
                    !.validationMessage = PingErrorMessage(o),
                    !.pc = "idle", !.ended = o]

\* validateAPIConfig after its await: the response is examined, then catch and finally
AfterPing(sb, o) ==
    LET done == [sb EXCEPT !.isValidating = FALSE, !.validationStep = "",
                           !.pc = "idle", !.ended = o]
    IN  IF o.kind = "response" /\ o.status = 200
        THEN [done EXCEPT !.validationStatus = "success",
                          !.validationMessage = SidebarText.validated]
        ELSE [done EXCEPT !.validationStatus = "error",
                          !.validationMessage = PingErrorMessage(o)]

(***************************************************************************)
(* Initial state: first visit (empty localStorage) at the upload page,     *)
(* after TranslationProvider mounted and its two save effects ran.         *)
(***************************************************************************)
EmptyStorage == [k \in StorageKeys |-> NoItem]
NoImage == [width |-> 0, height |-> 0, canvasWidth |-> 0, canvasHeight |-> 0, drawn |-> FALSE]

ProviderInit(store) ==
    /\ translations = LoadFromStorage(store, "translations", <<>>)
    /\ gptConfig = LoadFromStorage(store, "gptConfig", DefaultConfig)
    /\ storage = SaveConfig(SaveTranslations(store, translations), gptConfig)

Init ==
    /\ ProviderInit(EmptyStorage)
    /\ route = HomePath
    /\ visited = {}
    /\ isProcessing = FALSE
    /\ error = Null
    /\ targetLanguage = "zh"
    /\ inputText = ""
    /\ runs = [r \in Slots |-> IdleRun]
    /\ settled = IdleRun
    /\ now = 1
    /\ view = NoView
    /\ image = NoImage
    /\ dropped = NoFile
    /\ sidebar = SidebarInit(gptConfig)

(***************************************************************************)
(* processFile and processText, step by step.  Each operator gives the     *)
(* call's record after the step; code between two awaits runs in one step. *)
(***************************************************************************)
\* compressImage up to its promise: the size check
CompressImageStart(run, file) ==
    IF file.size > MAX_FILE_SIZE THEN Rejected(run, MsgFileTooLarge)
    ELSE [run EXCEPT !.pc = "compress"]

\* ProcessFileStart, were the API key not checked
ProcessFileStartUnchecked(file, lang) ==
    CompressImageStart([IdleRun EXCEPT !.kind = "file", !.apiKey = gptConfig.apiKey,
                                       !.fileName = file.name, !.lang = lang,
                                       !.owner = TRUE, !.steps = <<"compress">>], file)

\* processFile up to its first pending await
ProcessFileStart(file, lang) ==
    LET run == [IdleRun EXCEPT !.kind = "file", !.apiKey = gptConfig.apiKey,
                               !.fileName = file.name, !.lang = lang,
                               !.owner = TRUE]
    IN  IF gptConfig.apiKey = "" THEN Rejected(run, MsgNoApiKey)
        ELSE CompressImageStart([run EXCEPT !.steps = <<"compress">>], file)

\* processText up to its pending await: the translation request is issued
ProcessTextStart(text, lang) ==
    LET run == [IdleRun EXCEPT !.kind = "text", !.apiKey = gptConfig.apiKey,
                               !.fileName = TextFileName, !.lang = lang,
                               !.text = text, !.owner = TRUE]
    IN  IF gptConfig.apiKey = "" THEN Rejected(run, MsgNoApiKey)
        ELSE [run EXCEPT !.pc = "translate", !.steps = <<"translate">>]

\* AfterCompress, were the two requests issued together instead of one after the other
AfterCompressBothRequests(run, outcome) ==
    IF outcome = "ok"
    THEN [run EXCEPT !.pc = "ocr", !.steps = @ \o <<"ocr", "translate">>]
    ELSE Rejected(run, MsgFileRead)

\* compressImage settles; on success extractTextFromImage issues the OCR request
AfterCompress(run, outcome) ==
    CASE outcome = "readError" -> Rejected(run, MsgFileRead)
      [] outcome = "loadError" -> Rejected(run, MsgImageLoad)
      [] outcome = "noContext" -> Rejected(run, MsgNoCanvas)
      [] outcome = "tooLarge" -> Rejected(run, MsgStillTooLarge)
      [] OTHER -> [run EXCEPT !.pc = "ocr", !.steps = Append(@, "ocr")]

\* makeGPTRequest followed by validateGPTResponse
ValidatedRequest(o) ==
    LET result == MakeGPTRequest(o)
    IN  IF result.ok THEN ValidateGPTResponse(result.val) ELSE result

\* AfterOcr, were a failed OCR request issued once more
AfterOcrRetry(run, o) ==
    IF ~MakeGPTRequest(o).ok /\ run.returned = 0
    THEN [run EXCEPT !.returned = @ + 1, !.cause = o, !.steps = Append(@, "ocr")]
    ELSE Rejected([run EXCEPT !.returned = @ + 1, !.cause = o], MsgUnknown)

\* the OCR request settles; on success the translation request is issued
AfterOcr(run, o) ==
    LET originalText == ValidatedRequest(o)
        got == [run EXCEPT !.returned = @ + 1, !.cause = o, !.ocr = o.content]
    IN  IF ~originalText.ok THEN Rejected(got, originalText.val)
        ELSE IF Trim(originalText.val) = "" THEN Rejected(got, MsgNoText)
        ELSE [got EXCEPT !.text = originalText.val, !.pc = "translate",
                         !.steps = Append(@, "translate")]

\* the translation request settles; on success the record is built
AfterTranslate(run, o) ==
    LET translatedText == ValidatedRequest(o)
        got == [run EXCEPT !.returned = @ + 1, !.cause = o]
    IN  IF ~translatedText.ok THEN Rejected(got, translatedText.val)
        ELSE [got EXCEPT !.pc = "resolved",
                         !.record = NewTranslation(run.fileName, run.text,
                                                   translatedText.val, run.lang, now)]

(***************************************************************************)
(* Actions.                                                                *)
(***************************************************************************)
\* the router shows `path`: Upload is unmounted or mounted afresh unless it stays
GoTo(path) ==
    /\ route' = path
    /\ visited' = IF IsTranslationPath(path) THEN visited \cup {RouteId(path)} ELSE visited
    /\ view' = ViewAfter(view, path, translations)
    /\ IF route = HomePath /\ path = HomePath
       THEN UNCHANGED <<upload, runs>>
       ELSE /\ isProcessing' = FALSE
            /\ error' = Null
            /\ targetLanguage' = "zh"
            /\ inputText' = ""
            /\ runs' = Disowned(runs)

\* a call started from Upload: the handler's state updates up to the pending await,
\* or through catch and finally when the call rejects at once
StartCall(run) ==
    /\ IF run.pc = "rejected"
       THEN settled' = run /\ UNCHANGED runs
       ELSE runs' = [runs EXCEPT ![FreeSlot] = run] /\ UNCHANGED settled
    /\ isProcessing' = (run.pc # "rejected")
    /\ error' = IF run.pc = "rejected" THEN run.error ELSE Null
    /\ UNCHANGED <<translations, gptConfig, storage, route, visited, targetLanguage,
                   inputText, now, view, image>>

\* a file is dropped on the dropzone (disabled while processing): files above maxSize
\* are not accepted, then onDrop runs with the accepted files
DropEvent(file) ==
    /\ route = HomePath
    /\ ~isProcessing
    /\ CanStart
    /\ LET acceptedFiles == IF file.size <= DROPZONE_MAX_SIZE THEN <<file>> ELSE <<>>
       IN  IF Len(acceptedFiles) = 0
           THEN UNCHANGED appVars
           ELSE IF file.size > 20 * 1024 * 1024
                THEN /\ error' = MsgDropTooLarge
                     /\ UNCHANGED <<translations, gptConfig, storage, route, visited,
                                    isProcessing, targetLanguage, inputText, runs,
                                    settled, now, view, image>>
           ELSE StartCall(ProcessFileStart(file, targetLanguage))

\* Upload: onDrop behind the dropzone
OnDrop(file) == DropEvent(file) /\ UNCHANGED <<dropped, sidebar>>

\* the same, the dropped file being recorded
DropFile(file) == DropEvent(file) /\ dropped' = file /\ UNCHANGED sidebar

\* Upload: handleTextTranslation, behind its button (disabled while processing or
\* when the text is blank)
HandleTextTranslation ==
    /\ route = HomePath
    /\ ~(isProcessing \/ Trim(inputText) = "")
    /\ CanStart
    /\ IF Trim(inputText) = ""
       THEN /\ error' = MsgEnterText
            /\ UNCHANGED <<translations, gptConfig, storage, route, visited,
                           isProcessing, targetLanguage, inputText, runs, settled,
                           now, view, image>>
       ELSE StartCall(ProcessTextStart(inputText, targetLanguage))
    /\ UNCHANGED <<dropped, sidebar>>

\* a pending call moves on: to its next await, to its rejection (Upload's catch and
\* finally), or to its result (addTranslation, then Upload's navigate and finally)
Settle(r, run) ==
    IF run.pc = "resolved"
    THEN LET list == AddTranslation(translations, run.record)
             path == TranslationPath(run.record.id)
         IN  /\ translations' = list
             /\ storage' = SaveTranslations(storage, list)
             /\ route' = path
             /\ visited' = visited \cup {run.record.id}
             /\ view' = ViewAfter(view, path, list)
             /\ isProcessing' = FALSE
             /\ error' = Null
             /\ targetLanguage' = "zh"
             /\ inputText' = ""
             /\ runs' = Disowned([runs EXCEPT ![r] = IdleRun])
             /\ settled' = run
             /\ UNCHANGED <<gptConfig, now, image, dropped, sidebar>>
    ELSE /\ IF run.pc = "rejected"
            THEN runs' = [runs EXCEPT ![r] = IdleRun] /\ settled' = run
            ELSE runs' = [runs EXCEPT ![r] = run] /\ UNCHANGED settled
         /\ IF run.pc = "rejected" /\ run.owner
            THEN isProcessing' = FALSE /\ error' = run.error
            ELSE UNCHANGED <<isProcessing, error>>
         /\ UNCHANGED <<translations, gptConfig, storage, route, visited, targetLanguage,
                        inputText, now, view, image, dropped, sidebar>>

\* the FileReader / Image callbacks of compressImage fire
CompressSettles(r, outcome) ==
    /\ runs[r].pc = "compress"
    /\ Settle(r, AfterCompress(runs[r], outcome))

\* an axios.post of the pipeline settles
HttpSettles(r, o) ==
    /\ runs[r].pc \in {"ocr", "translate"}
    /\ Settle(r, IF runs[r].pc = "ocr" THEN AfterOcr(runs[r], o)
                                       ELSE AfterTranslate(runs[r], o))

\* Sidebar: a history entry is clicked
ClickTranslationLink(id) ==
    /\ \E i \in 1..Len(translations) : translations[i].id = id
    /\ GoTo(TranslationPath(id))
    /\ UNCHANGED <<translations, gptConfig, storage, settled, now, image, dropped, sidebar>>

\* Sidebar: the "new translation" link, or Translation's back button
ClickNewTranslation ==
    /\ GoTo(HomePath)
    /\ UNCHANGED <<translations, gptConfig, storage, settled, now, image, dropped, sidebar>>

\* the browser's back / forward buttons reach an entry of the session history
BrowserBack(id) ==
    /\ id \in visited
    /\ GoTo(TranslationPath(id))
    /\ UNCHANGED <<translations, gptConfig, storage, settled, now, image, dropped, sidebar>>

\* Sidebar: handleRemove
HandleRemove(id) ==
    /\ \E i \in 1..Len(translations) : translations[i].id = id
    /\ LET list == RemoveTranslation(translations, id)
           path == IF route = TranslationPath(id) THEN HomePath ELSE route
       IN  /\ translations' = list
           /\ storage' = SaveTranslations(storage, list)
           /\ route' = path
           /\ view' = ViewAfter(view, path, list)
    /\ UNCHANGED <<gptConfig, visited, upload, runs, settled, now, image, dropped, sidebar>>

\* updateGPTConfig (called by handleSaveConfig) and the save effect it triggers
UpdateGPTConfig(config) ==
    /\ gptConfig' = NormalizedConfig(config)
    /\ storage' = SaveConfig(storage, gptConfig')
    /\ UNCHANGED <<translations, route, visited, upload, runs, settled, now, view, image, dropped, sidebar>>

\* the page is reloaded: every component mounts afresh, pending calls are gone
Reload ==
    /\ translations' = LoadFromStorage(storage, "translations", <<>>)
    /\ gptConfig' = LoadFromStorage(storage, "gptConfig", DefaultConfig)
    /\ storage' = SaveConfig(SaveTranslations(storage, translations'), gptConfig')
    /\ runs' = [r \in Slots |-> IdleRun]
    /\ settled' = IdleRun
    /\ isProcessing' = FALSE
    /\ error' = Null
    /\ targetLanguage' = "zh"
    /\ inputText' = ""
    /\ view' = ViewAfter(NoView, route, translations')
    /\ sidebar' = SidebarInit(gptConfig')
    /\ UNCHANGED <<route, visited, now, image, dropped>>

\* time passes
Tick ==
    /\ now < MaxClock
    /\ now' = now + 1
    /\ UNCHANGED <<translations, gptConfig, storage, route, visited, upload, runs,
                   settled, view, image, dropped, sidebar>>

\* Upload: the language select and the textarea (both disabled while processing)
SetTargetLanguage(lang) ==
    /\ route = HomePath
    /\ ~isProcessing
    /\ targetLanguage' = lang
    /\ UNCHANGED <<translations, gptConfig, storage, route, visited, isProcessing, error,
                   inputText, runs, settled, now, view, image, dropped, sidebar>>

SetInputText(text) ==
    /\ route = HomePath
    /\ ~isProcessing
    /\ inputText' = text
    /\ UNCHANGED <<translations, gptConfig, storage, route, visited, isProcessing, error,
                   targetLanguage, runs, settled, now, view, image, dropped, sidebar>>

(***************************************************************************)
(* The whole application: two calls may be pending, every handler of the   *)
(* provider, the upload page and the sidebar is there; the inputs are one  *)
(* file, one text, one language, and one success and one failure of each   *)
(* asynchronous step.                                                      *)
(***************************************************************************)
AppFiles == {f \in Files : f.size = MAX_FILE_SIZE}
AppTexts == {"Hello"}
AppLanguages == {"zh"}
AppCompressOutcomes == {"ok", "loadError"}
AppOutcomes ==
    {o \in Outcomes : \/ o.kind = "data" /\ o.content = "Hola"
                      \/ o.kind = "axios" /\ o.code = "ERR_NETWORK"}
Ids == {ToString(t) : t \in 1..MaxClock}

Next ==
    \/ \E lang \in AppLanguages : SetTargetLanguage(lang)
    \/ \E text \in AppTexts : SetInputText(text)
    \/ \E file \in AppFiles : OnDrop(file)
    \/ HandleTextTranslation
    \/ \E r \in Slots, outcome \in AppCompressOutcomes : CompressSettles(r, outcome)
    \/ \E r \in Slots, o \in AppOutcomes : HttpSettles(r, o)
    \/ \E id \in Ids : ClickTranslationLink(id)
    \/ ClickNewTranslation
    \/ \E id \in Ids : HandleRemove(id)
    \/ \E config \in [apiKey : ApiKeys, baseUrl : BaseUrls] : UpdateGPTConfig(config)
    \/ Reload
    \/ Tick

Spec == Init /\ [][Next]_vars

(***************************************************************************)
(* One call at a time, in detail: every file size, text, language, and     *)
(* every way compressImage and the two requests can settle.  The user      *)
(* stays on the upload page while a call is pending.                       *)
(***************************************************************************)
NextCall ==
    \/ \E lang \in Languages : SetTargetLanguage(lang)
    \/ \E text \in InputTexts : SetInputText(text)
    \/ \E file \in Files : OnDrop(file)
    \/ HandleTextTranslation
    \/ \E r \in Slots, outcome \in CompressOutcomes : CompressSettles(r, outcome)
    \/ \E r \in Slots, o \in Outcomes : HttpSettles(r, o)
    \/ ClickNewTranslation
    \/ \E config \in [apiKey : ApiKeys, baseUrl : BaseUrls] : UpdateGPTConfig(config)

SpecCall == Init /\ [][NextCall]_vars

(***************************************************************************)
(* Dropping files: the user configures the API, picks a language and drops *)
(* files of every size on the upload page, one call at a time; the last    *)
(* dropped file is recorded.                                               *)
(***************************************************************************)
NextDrop ==
    \/ \E lang \in Languages : SetTargetLanguage(lang)
    \/ \E file \in Files : DropFile(file)
    \/ \E r \in Slots, outcome \in CompressOutcomes : CompressSettles(r, outcome)
    \/ \E r \in Slots, o \in Outcomes : HttpSettles(r, o)
    \/ \E config \in [apiKey : ApiKeys, baseUrl : BaseUrls] : UpdateGPTConfig(config)

SpecDrop == Init /\ [][NextDrop]_vars

(***************************************************************************)
(* The settings dialog: the user opens and closes it, types a key and an   *)
(* address, validates and saves.  The ping has a timeout of 10 s, so a     *)
(* pending ping settles.                                                   *)
(***************************************************************************)
\* Sidebar: the "API settings" button
OpenSettings ==
    /\ ~sidebar.showSettings
    /\ sidebar' = [sidebar EXCEPT !.showSettings = TRUE]
    /\ UNCHANGED <<appVars, dropped>>

\* Sidebar: the cancel button of the dialog
CloseSettings ==
    /\ sidebar.showSettings
    /\ sidebar' = [sidebar EXCEPT !.showSettings = FALSE]
    /\ UNCHANGED <<appVars, dropped>>

\* Sidebar: the two inputs of the dialog
SetTempConfig(config) ==
    /\ sidebar.showSettings
    /\ sidebar' = [sidebar EXCEPT !.tempConfig = config]
    /\ UNCHANGED <<appVars, dropped>>

\* Sidebar: validateAPIConfig, behind its button
ValidateAPIConfig ==
    /\ sidebar.showSettings
    /\ ~ValidateDisabled(sidebar)
    /\ sidebar' = ValidateStart(sidebar)
    /\ UNCHANGED <<appVars, dropped>>

\* the axios.post of validateAPIConfig settles
PingSettles(o) ==
    /\ sidebar.pc = "ping"
    /\ sidebar' = AfterPing(sidebar, o)
    /\ UNCHANGED <<appVars, dropped>>

\* Sidebar: handleSaveConfig, behind its button
HandleSaveConfig ==
    /\ sidebar.showSettings
    /\ ~SaveDisabled(sidebar)
    /\ gptConfig' = NormalizedConfig(sidebar.tempConfig)
    /\ storage' = SaveConfig(storage, gptConfig')
    /\ sidebar' = [sidebar EXCEPT !.showSettings = FALSE]
    /\ UNCHANGED <<translations, route, visited, upload, runs, settled, now, view, image,
                   dropped>>

NextValidate ==
    \/ OpenSettings
    \/ CloseSettings
    \/ \E config \in TempConfigs : SetTempConfig(config)
    \/ ValidateAPIConfig
    \/ \E o \in PingOutcomes : PingSettles(o)
    \/ HandleSaveConfig

SpecValidate ==
    Init /\ [][NextValidate]_vars /\ WF_vars(\E o \in PingOutcomes : PingSettles(o))

(***************************************************************************)
(* The Translation page: the browser opens the application at the upload   *)
(* page or at a translation URL, with one record in the stored history;    *)
(* the user follows links, removes records and scrolls the two panes.      *)
(***************************************************************************)
ViewRecord == NewTranslation("a.png", "Hello", "Hola", "zh", 1)

InitView ==
    \E path \in {HomePath} \cup {TranslationPath(id) : id \in Ids} :
        /\ ProviderInit(SaveTranslations(EmptyStorage, <<ViewRecord>>))
        /\ route = path
        /\ visited = IF IsTranslationPath(path) THEN {RouteId(path)} ELSE {}
        /\ isProcessing = FALSE
        /\ error = Null
        /\ targetLanguage = "zh"
        /\ inputText = ""
        /\ runs = [r \in Slots |-> IdleRun]
        /\ settled = IdleRun
        /\ now = 1
        /\ view = ViewAfter(NoView, path, translations)
        /\ image = NoImage
        /\ dropped = NoFile
        /\ sidebar = SidebarInit(gptConfig)

\* the user scrolls pane p to `pos`: a scroll event is queued on it
UserScroll(p, pos) ==
    /\ view.shown # NoTranslation
    /\ pos \in 0..ScrollRange(PaneText(view.shown, p))
    /\ pos # view.top[p]
    /\ view' = [view EXCEPT !.top[p] = pos, !.pending = @ \cup {p}]
    /\ UNCHANGED <<translations, gptConfig, storage, route, visited, upload, runs,
                   settled, now, image, dropped, sidebar>>

\* syncScroll(source, target): the scrollTop the target is given (a non-finite
\* value is stored as 0, a fraction of a pixel is dropped)
SyncScroll(v, source) ==
    LET target == OtherPane(source)
        sourceRange == ScrollRange(PaneText(v.shown, source))
        targetRange == ScrollRange(PaneText(v.shown, target))
    IN  IF sourceRange = 0 THEN 0
        ELSE (v.top[source] * targetRange) \div sourceRange

\* the queued scroll event of pane p is dispatched: the listener, if one was
\* attached, runs syncScroll, and moving the other pane queues its scroll event
ScrollEvent(p) ==
    /\ view.shown # NoTranslation
    /\ p \in view.pending
    /\ LET target == OtherPane(p)
           top == SyncScroll(view, p)
       IN  view' = IF view.listening /\ top # view.top[target]
                   THEN [view EXCEPT !.top[target] = top,
                                     !.pending = (@ \ {p}) \cup {target}]
                   ELSE [view EXCEPT !.pending = @ \ {p}]
    /\ UNCHANGED <<translations, gptConfig, storage, route, visited, upload, runs,
                   settled, now, image, dropped, sidebar>>

NextView ==
    \/ \E id \in Ids : ClickTranslationLink(id)
    \/ ClickNewTranslation
    \/ \E id \in Ids : BrowserBack(id)
    \/ \E id \in Ids : HandleRemove(id)
    \/ \E p \in Panes, pos \in 0..MaxScroll : UserScroll(p, pos)
    \/ \E p \in Panes : ScrollEvent(p)

SpecView == InitView /\ [][NextView]_vars

(***************************************************************************)
(* compressImage's scaling, as a function of the picture's width and       *)
(* height: img.onload computes the scale and sizes the canvas.             *)
(***************************************************************************)
MAX_IMAGE_SIZE == 800

\* the sides tried: a few pixels, the sides around MAX_IMAGE_SIZE, its multiples,
\* and sides whose scaled value a double product misses (537 * (800 / 895) is
\* 479.99999999999994, 1078 * (800 / 1078) is 799.9999999999999)
SmallSides == 2
SideWindow == 2
MaxFactor == 2
Sides ==
    (1..SmallSides)
    \cup ((MAX_IMAGE_SIZE - SideWindow)..(MAX_IMAGE_SIZE + SideWindow))
    \cup {MAX_IMAGE_SIZE * k : k \in 2..(MaxFactor + 1)}
    \cup {537, 895, 1078}

Max(a, b) == IF a > b THEN a ELSE b

RECURSIVE GCD(_, _)
GCD(a, b) == IF b = 0 THEN a ELSE GCD(b, a % b)

RECURSIVE IsPowerOfTwo(_)
IsPowerOfTwo(n) == n = 1 \/ (n % 2 = 0 /\ IsPowerOfTwo(n \div 2))

\* Scale, were the factor not capped at 1
ScaleUncapped(width, height) == <<MAX_IMAGE_SIZE, Max(width, height)>>

\* const scale = Math.min(1, MAX_IMAGE_SIZE / Math.max(width, height)), as the
\* fraction <<numerator, denominator>>
Scale(width, height) ==
    IF MAX_IMAGE_SIZE >= Max(width, height) THEN <<1, 1>>
    ELSE <<MAX_IMAGE_SIZE, Max(width, height)>>

\* the quotient is a double: it is the fraction itself only when the reduced
\* denominator is a power of two
IsExact(scale) == IsPowerOfTwo(scale[2] \div GCD(scale[1], scale[2]))

\* width *= scale; canvas.width = width: the values the canvas side can take.  The
\* canvas keeps the integer part of the double product; with an inexact scale a
\* product that should be a whole number can come out just below it.
CanvasSides(side, scale) ==
    LET product == side * scale[1]
        whole == product \div scale[2]
    IN  IF ~IsExact(scale) /\ product % scale[2] = 0 THEN {whole - 1, whole}
        ELSE {whole}

InitImage ==
    /\ ProviderInit(EmptyStorage)
    /\ route = HomePath
    /\ visited = {}
    /\ isProcessing = FALSE
    /\ error = Null
    /\ targetLanguage = "zh"
    /\ inputText = ""
    /\ runs = [r \in Slots |-> IdleRun]
    /\ settled = IdleRun
    /\ now = 1
    /\ view = NoView
    /\ image \in [width : Sides, height : Sides, canvasWidth : {0}, canvasHeight : {0},
                  drawn : {FALSE}]
    /\ dropped = NoFile
    /\ sidebar = SidebarInit(gptConfig)

\* img.onload: the canvas is sized and the picture drawn into it
ImgOnload ==
    /\ ~image.drawn
    /\ \E canvasWidth \in CanvasSides(image.width, Scale(image.width, image.height)),
          canvasHeight \in CanvasSides(image.height, Scale(image.width, image.height)) :
          image' = [image EXCEPT !.canvasWidth = canvasWidth,
                                 !.canvasHeight = canvasHeight, !.drawn = TRUE]
    /\ UNCHANGED <<translations, gptConfig, storage, route, visited, upload, runs,
                   settled, now, view, dropped, sidebar>>

NextImage == ImgOnload

SpecImage == InitImage /\ [][NextImage]_vars

(***************************************************************************)
(* Properties.                                                             *)
(***************************************************************************)
\* the calls the state knows: the pending ones and the one that settled last
Calls == {runs[r] : r \in Slots} \cup {settled}
NoDuplicates(seq) == \A i, j \in 1..Len(seq) : i # j => seq[i] # seq[j]
PipelineRequests(kind) == IF kind = "file" THEN <<"ocr", "translate">> ELSE <<"translate">>

\* C1 (as claimed): the values stored under 'translations' and 'gptConfig' equal the
\* history and the configuration in memory, so a provider initialised from
\* localStorage (a reload) starts with exactly them.
C1_StorageMatchesMemory ==
    /\ LoadFromStorage(storage, "translations", <<>>) = translations
    /\ LoadFromStorage(storage, "gptConfig", DefaultConfig) = gptConfig

\* C2 (as claimed): a call that went through the whole pipeline issued three HTTP
\* requests, each after the previous one returned.
C2_ThreeRequests ==
    settled.pc = "resolved" => Len(Requests(settled)) = 3 /\ settled.returned = 3

\* C2 (amended): processFile issues at most two HTTP requests, the OCR request and
\* then the translation request, processText at most one, the translation request;
\* a call that resolves issued all of them; a call has at most one request pending,
\* so each request is started only after the previous one has returned.
C2_SequentialRequests ==
    \A c \in Calls :
        LET reqs == Requests(c)
            full == PipelineRequests(c.kind)
        IN  /\ c.kind # "none" => Len(reqs) <= Len(full) /\ reqs = SubSeq(full, 1, Len(reqs))
            /\ c.returned <= Len(reqs)
            /\ Len(reqs) - c.returned = (IF c.pc \in {"ocr", "translate"} THEN 1 ELSE 0)
            /\ c.pc = "resolved" => reqs = full

\* C2 witness: a processFile call resolved after its OCR request and then its
\* translation request returned.
C2_Witness ==
    /\ settled.pc = "resolved" /\ settled.kind = "file"
    /\ Requests(settled) = <<"ocr", "translate">> /\ settled.returned = 2

\* the messages compressImage rejects with
CompressMessages ==
    {MsgFileTooLarge, MsgFileRead, MsgImageLoad, MsgNoCanvas, MsgStillTooLarge}

\* C3: a call that fails rejects with a non-empty message, every request it issued has
\* returned and none was issued after the failing step (no step past the API key
\* check, compressImage, the OCR request resp. the failing request), and no step of a
\* call is ever taken twice (nothing is retried).
C3_FailFast ==
    /\ \A c \in Calls : NoDuplicates(c.steps)
    /\ settled.pc = "rejected" =>
          /\ Len(settled.error) > 0 /\ settled.error # NoMessage
          /\ Len(Requests(settled)) = settled.returned
          /\ settled.error = MsgNoApiKey => settled.steps = <<>>
          /\ settled.error \in CompressMessages => settled.steps = <<"compress">>
          /\ settled.error = MsgNoText => settled.steps = <<"compress", "ocr">>
          /\ settled.error \notin CompressMessages \cup {MsgNoApiKey} =>
                /\ settled.returned >= 1
                /\ settled.cause # NoOutcome
                /\ IsRequest(settled.steps[Len(settled.steps)])

\* C3 witness: the OCR request of a processFile call was answered with status 500;
\* the call rejected with the server-error message, which Upload shows.
C3_Witness ==
    /\ settled.pc = "rejected" /\ settled.kind = "file"
    /\ settled.error = MsgServerError /\ settled.steps = <<"compress", "ocr">>
    /\ error = MsgServerError /\ ~isProcessing

\* C4 (as claimed): at most one processFile/processText call is pending, so no two
\* pipeline requests are pending at the same time.
C4_AtMostOneInFlight == NumInFlight <= 1

\* the scroll event of pane p is dispatched while a record stays displayed
C5_Dispatched(p) ==
    /\ view.shown # NoTranslation /\ view'.shown = view.shown
    /\ p \in view.pending /\ p \notin view'.pending
\* after the step the other pane is at the fraction pane p was at, to the pixel
C5_SameFraction(p) ==
    LET target == OtherPane(p)
        sourceRange == ScrollRange(PaneText(view.shown, p))
        targetRange == ScrollRange(PaneText(view.shown, target))
    IN  /\ view'.top[target] * sourceRange <= view.top[p] * targetRange
        /\ view.top[p] * targetRange < (view'.top[target] + 1) * sourceRange

\* C5 (as claimed): in every state in which a record is displayed, the dispatch of a
\* pane's scroll event leaves the other pane at the same fraction of its scroll range
\* (to the pixel), also when the page first showed the 'not found' placeholder.
C5_ScrollSynced ==
    [][\A p \in Panes : C5_Dispatched(p) => C5_SameFraction(p)]_vars

\* C6 (as claimed): the canvas has the picture's aspect ratio, its longer side is at
\* most MAX_IMAGE_SIZE, and a picture whose sides are at most MAX_IMAGE_SIZE keeps
\* its dimensions.
C6_AspectRatioKept ==
    image.drawn =>
        /\ Max(image.canvasWidth, image.canvasHeight) <= MAX_IMAGE_SIZE
        /\ image.canvasWidth * image.height = image.canvasHeight * image.width
        /\ Max(image.width, image.height) <= MAX_IMAGE_SIZE =>
               /\ image.canvasWidth = image.width
               /\ image.canvasHeight = image.height

\* canvasSide is side * MAX_IMAGE_SIZE / max(width, height), less at most one pixel
C6_WithinOnePixel(canvasSide, side) ==
    LET longer == Max(image.width, image.height)
    IN  /\ canvasSide * longer <= side * MAX_IMAGE_SIZE
        /\ side * MAX_IMAGE_SIZE <= (canvasSide + 1) * longer

\* C6 (amended): a picture whose sides are at most MAX_IMAGE_SIZE keeps its
\* dimensions; a larger one gets a canvas whose sides are the picture's sides times
\* MAX_IMAGE_SIZE / max(width, height) cut down to whole pixels (each side at most
\* one pixel below the exactly scaled side, so the shorter side can become 0), the
\* longer canvas side being MAX_IMAGE_SIZE or one pixel less.
C6_ScaledToWholePixels ==
    image.drawn =>
        IF Max(image.width, image.height) <= MAX_IMAGE_SIZE
        THEN image.canvasWidth = image.width /\ image.canvasHeight = image.height
        ELSE /\ C6_WithinOnePixel(image.canvasWidth, image.width)
             /\ C6_WithinOnePixel(image.canvasHeight, image.height)
             /\ Max(image.canvasWidth, image.canvasHeight)
                    \in {MAX_IMAGE_SIZE - 1, MAX_IMAGE_SIZE}

\* C6 witness: a picture wider than MAX_IMAGE_SIZE was scaled down to a canvas of
\* another aspect ratio.
C6_Witness ==
    /\ image.drawn
    /\ image.width > MAX_IMAGE_SIZE /\ image.width > image.height
    /\ image.canvasWidth = MAX_IMAGE_SIZE
    /\ image.canvasWidth * image.height # image.canvasHeight * image.width

\* the call in slot r resolves / a call starts in slot r
Resolves(r) == runs[r].pc = "translate" /\ runs'[r].pc = "idle" /\ settled'.pc = "resolved"
Starts(r) == ~InFlight(r) /\ runs'[r].pc \in InFlightPcs

\* what C7 says of one step
C7_Step ==
    /\ IF \E r \in Slots : Resolves(r)
       THEN \E r \in Slots :
               /\ Resolves(r)
               /\ translations' = <<settled'.record>> \o translations
               /\ settled'.record.originalText =
                     (IF runs[r].kind = "text" THEN runs[r].text
                      ELSE ValidateGPTResponse(runs[r].ocr).val)
               /\ runs[r].kind = "file" => ValidateGPTResponse(runs[r].ocr).ok
               /\ ValidateGPTResponse(settled'.cause.content).ok
               /\ settled'.record.translatedText = settled'.cause.content
               /\ settled'.record.targetLanguage = runs[r].lang
       ELSE translations' = translations
    /\ \A r \in Slots :
          Starts(r) => /\ runs'[r].lang = targetLanguage
                       /\ runs'[r].kind = "text" => runs'[r].text = inputText

\* C7: a step in which a call resolves puts exactly that call's record in front of
\* the unchanged older records: originalText is the submitted text resp. the validated
\* OCR output, translatedText the validated translation response, targetLanguage the
\* language selected when the call was made; every other step of the calls (a
\* rejection included) leaves the history as it is.
C7_HistoryOnSuccess == [][C7_Step]_vars

\* C7 witness: a second call resolved; its record, in another target language, is in
\* front of the older one.
C7_Witness ==
    /\ Len(translations) = 2 /\ settled.pc = "resolved"
    /\ translations[1] = settled.record
    /\ translations[1].targetLanguage # translations[2].targetLanguage

\* what C8 says of a call, and of the step a call is made in
C8_Call ==
    \A c \in Calls :
        c.kind # "none" /\ c.apiKey = "" =>
            /\ c.pc = "rejected" /\ c.error = MsgNoApiKey
            /\ c.steps = <<>> /\ c.returned = 0 /\ c.record = NoTranslation
C8_Step ==
    /\ \A r \in Slots : Starts(r) => runs'[r].apiKey = gptConfig.apiKey /\ gptConfig.apiKey # ""
    /\ runs' = runs /\ settled' # settled /\ settled'.pc = "rejected" =>
          /\ settled'.apiKey = gptConfig.apiKey
          /\ settled'.apiKey = "" => translations' = translations /\ error' = MsgNoApiKey

\* C8: a call made while the configured apiKey is empty rejects with '请先配置 API Key'
\* and has done nothing: it never becomes pending, it took no step (no compression, no
\* request), and the step leaves the history and the pending calls as they are.
C8_NoApiKey == [](C8_Call) /\ [][C8_Step]_vars

\* C8 witness: with an empty apiKey configured a file was dropped; the call rejected
\* at once with the message, which Upload shows.
C8_Witness ==
    /\ gptConfig.apiKey = "" /\ settled.kind = "file" /\ settled.apiKey = ""
    /\ settled.pc = "rejected" /\ error = MsgNoApiKey /\ ~isProcessing

\* C9 (as claimed): a request that timed out (axios error, code 'ECONNABORTED', no
\* response) rejects the call with '请求超时，请重试', not with the message of an
\* unreachable server.
C9_TimeoutMessage ==
    (/\ settled.pc = "rejected"
     /\ settled.cause.kind = "axios"
     /\ settled.cause.code = "ECONNABORTED"
     /\ ~settled.cause.hasResponse)
    => settled.error = MsgTimeout /\ settled.error # MsgNoConnection

\* C10 (as claimed): when the OCR response is an empty or whitespace-only string,
\* processFile rejects with '未能从图片中提取到文字，请确保图片包含清晰的文本' and has
\* issued no translation request.
C10_EmptyExtraction ==
    (/\ settled.kind = "file"
     /\ settled.cause.kind = "data"
     /\ settled.ocr # NoContent
     /\ Trim(settled.ocr) = "")
    => /\ settled.pc = "rejected"
       /\ settled.error = MsgNoText
       /\ Requests(settled) = <<"ocr">>

\* the call the last drop started: the pending one, or else the one settled last
DropCall ==
    IF \E r \in Slots : InFlight(r) THEN runs[CHOOSE r \in Slots : InFlight(r)]
    ELSE settled

\* C11 (as claimed): after a file was dropped on the upload page, Upload shows
\* '文件大小不能超过 20MB' exactly when the file is larger than 20 * 1024 * 1024 bytes,
\* and a file of at most that size started a processFile call that no size check
\* rejected: with an API key configured it went on to compressImage's conversion,
\* after which the OCR request is issued.
C11_SizeLimit ==
    (dropped # NoFile /\ route = HomePath) =>
        /\ (error = MsgDropTooLarge) <=> (dropped.size > 20 * 1024 * 1024)
        /\ dropped.size <= 20 * 1024 * 1024 =>
               /\ DropCall.kind = "file"
               /\ DropCall.error \notin {MsgDropTooLarge, MsgFileTooLarge}
               /\ DropCall.apiKey # "" =>
                      DropCall.steps # <<>> /\ Head(DropCall.steps) = "compress"

\* what C12 says of a state: isValidating is true exactly while the ping is pending;
\* outside a run validationStep is ''; a run that ended left 'success' exactly when
\* the ping returned status 200 and else 'error' with a message; while a run is
\* pending both buttons are disabled
C12_State ==
    /\ sidebar.isValidating <=> sidebar.pc = "ping"
    /\ ~sidebar.isValidating => sidebar.validationStep = ""
    /\ (~sidebar.isValidating /\ sidebar.ended # NoOutcome) =>
          /\ sidebar.validationStatus \in {"success", "error"}
          /\ sidebar.validationStatus = "success" <=>
                (sidebar.ended.kind = "response" /\ sidebar.ended.status = 200)
          /\ sidebar.validationStatus = "error" => Len(sidebar.validationMessage) > 0
    /\ sidebar.isValidating =>
          /\ ValidateDisabled(sidebar) /\ SaveDisabled(sidebar)
          /\ ~ENABLED ValidateAPIConfig /\ ~ENABLED HandleSaveConfig

\* what C12 says of a step: while a run is pending the configuration is not saved,
\* and the run's phase ends only when its ping settles
C12_Step ==
    sidebar.isValidating =>
        /\ gptConfig' = gptConfig
        /\ ~sidebar'.isValidating => sidebar'.ended \in PingOutcomes

\* C12: every run of validateAPIConfig ends its validating phase: isValidating is true
\* from the start of the run until it settles, the run ends with isValidating = false
\* and validationStep = '', validationStatus is 'success' only after a ping answered
\* with status 200 and else 'error' with a non-empty validationMessage, and while
\* isValidating is true the validate and the save button are disabled.
C12_ValidationEnds ==
    /\ []C12_State
    /\ [][C12_Step]_vars
    /\ (sidebar.isValidating ~> ~sidebar.isValidating)

\* C12 witness: the ping of a run was answered with status 404; the run ended with
\* 'error' and its message, and the validating phase is over.
C12_Witness ==
    /\ sidebar.ended.kind = "axios" /\ sidebar.ended.status = 404
    /\ sidebar.validationStatus = "error"
    /\ sidebar.validationMessage = SidebarText.notFound
    /\ ~sidebar.isValidating /\ sidebar.validationStep = ""

====
